---------------------------- MODULE Spec2Model ----------------------------
(***************************************************************************)
(* Model of custom_components/vicare/__init__.py: the config-entry         *)
(* lifecycle of the ViCare integration (setup, unique-id migration,        *)
(* unload) for two config entries that the host sets up and unloads.       *)
(*                                                                         *)
(* Strings that the code takes apart (entity unique ids, serials, device   *)
(* ids) are sequences of one-character strings.  Python dicts are          *)
(* functions whose DOMAIN is the set of keys.                              *)
(***************************************************************************)
EXTENDS Integers, Sequences, FiniteSets, TLC

VARIABLES
    hass_data,      \* hass.data[DOMAIN]: entry id -> record (a dict)
    entry_data,     \* entry.data of each config entry (only CONF_PREMIUM is read as a flag)
    version,        \* config_entry.version of each config entry
    entities,       \* the host's entity registry, in iteration order
    token_file,     \* whether <storage>/vicare_token.save exists
    pc,             \* where each entry's lifecycle stands
    vicare_api,     \* setup_vicare_api's local vicare_api (the session), per entry
    scan_interval,  \* setup_vicare_api's local scan_interval, per entry
    unload_ok,      \* async_unload_entry's local unload_ok, per entry
    raised,         \* the exception raised inside the try block of the last setup, per entry
    result,         \* what the last async_setup_entry returned or raised, per entry
    unload_result,  \* what the last async_unload_entry returned or raised, per entry
    remove_outcome, \* how os.remove ended in the last unload, per entry
    migrations,     \* per entry: 0 before the migrator has rewritten the entry, 1 when
                    \* the run that did was its last run, 2 when it has run again since
    unload_record   \* per entry, while its unload awaits os.remove: the set of the
                    \* record the entry had when the platform unload had ended

vars == <<hass_data, entry_data, version, entities, token_file, pc, vicare_api,
          scan_interval, unload_ok, raised, result, unload_result, remove_outcome,
          migrations, unload_record>>

-----------------------------------------------------------------------------
(* Bounds and constants *)

MaxDevices == 3

NumEntities == 2

DEFAULT_SCAN_INTERVAL == 60

Entries == {"e1", "e2"}

CONF_PREMIUM == "premium"

VICARE_DEVICE_CONFIG == "device_conf"

\* What stands for Python's None: no entity id, no update, no session.
NoEntity == 0

NoUpdates == [is_none |-> TRUE, new_unique_id |-> << >>]

NoSession == [cacheDuration |-> 0, devices |-> << >>]

EmptyDict == << >>

Dash == <<"-">>

\* entry.data as far as the module reads it as an option: the premium flag is
\* absent, false or true.
EntryDatas == {EmptyDict} \cup {[k \in {CONF_PREMIUM} |-> b] : b \in BOOLEAN}

\* The serial of the first device of an installation, and the serial of any
\* further device.
FirstSerial == <<"s">>

OtherSerial == <<"x">>

\* The values get_unique_device_id may give for the first device.
DeviceIds == {<<"n">>, <<"s", "-", "n">>}

-----------------------------------------------------------------------------
(* Exceptions *)

LoginErrors == {"PyViCareInvalidCredentialsError", "PyViCareRateLimitError",
                "PyViCareInternalServerError", "ConnectionError", "ReadTimeout",
                "OtherError"}


\* Mutant of HandleSetupException: the clause for the rate-limit error is
\* missing.
HandleSetupException_NoRateLimit(exc) ==
    CASE exc = "PyViCareInvalidCredentialsError" -> "ConfigEntryAuthFailed"
      [] exc = "PyViCareInternalServerError" -> "ConfigEntryNotReady"
      [] exc \in {"ConnectionError", "ReadTimeout"} -> "ConfigEntryNotReady"
      [] OTHER -> exc

\* The except clauses of async_setup_entry: what setup raises for an exception
\* raised inside its try block.  An exception no clause names propagates.
HandleSetupException(exc) ==
    CASE exc = "PyViCareInvalidCredentialsError" -> "ConfigEntryAuthFailed"
      [] exc = "PyViCareRateLimitError" -> "ConfigEntryNotReady"
      [] exc = "PyViCareInternalServerError" -> "ConfigEntryNotReady"
      [] exc \in {"ConnectionError", "ReadTimeout"} -> "ConfigEntryNotReady"
      [] OTHER -> exc

-----------------------------------------------------------------------------
(* setup_vicare_api: the scan-interval policy and the sessions *)

Max(a, b) == IF a >= b THEN a ELSE b

\* scan_interval/2 is Python's true division.  Its operand is a multiple of
\* DEFAULT_SCAN_INTERVAL, which is even, so the quotient is a whole number.
HalfOf(x) == x \div 2

\* Mutants of ComputeScanInterval: the halving applied before the maximum is
\* taken; and the product alone, without the maximum.
ComputeScanInterval_HalvedFirst(device_count, data) ==
    IF CONF_PREMIUM \in DOMAIN data /\ data[CONF_PREMIUM]
    THEN Max(DEFAULT_SCAN_INTERVAL, HalfOf(DEFAULT_SCAN_INTERVAL * device_count))
    ELSE Max(DEFAULT_SCAN_INTERVAL, DEFAULT_SCAN_INTERVAL * device_count)

ComputeScanInterval_NoMax(device_count, data) ==
    IF CONF_PREMIUM \in DOMAIN data /\ data[CONF_PREMIUM]
    THEN HalfOf(DEFAULT_SCAN_INTERVAL * device_count)
    ELSE DEFAULT_SCAN_INTERVAL * device_count

\* Lines 154-158: the interval for the second session, from the number of
\* devices of the first session and entry.data.
ComputeScanInterval(device_count, data) ==
    LET base == Max(DEFAULT_SCAN_INTERVAL, DEFAULT_SCAN_INTERVAL * device_count)
    IN  IF CONF_PREMIUM \in DOMAIN data /\ data[CONF_PREMIUM]
        THEN HalfOf(base)
        ELSE base

\* The device handles a session enumerates: n devices, the first with
\* FirstSerial and the device id id, each with the session's cache duration.
SessionDevices(n, id, cache_duration) ==
    [k \in 1..n |->
        [serial |-> IF k = 1 THEN FirstSerial ELSE OtherSerial,
         device_id |-> IF k = 1 THEN id ELSE OtherSerial,
         cacheDuration |-> cache_duration]]

\* vicare_login: a client with the cache duration set, authenticated, with
\* the devices it enumerates.
Session(interval, n, id) ==
    [cacheDuration |-> interval, devices |-> SessionDevices(n, id, interval)]

\* Mutant of DeviceCacheDuration: the session's interval, premium halving
\* included.
DeviceCacheDuration_SessionInterval(devices, interval) == interval

\* Line 170: the cache duration forced on every device of the second session.
DeviceCacheDuration(devices, interval) == DEFAULT_SCAN_INTERVAL * Len(devices)

\* Lines 166-170: the loop over the devices of the second session.
OverrideCacheDurations(devices, interval) ==
    [k \in 1..Len(devices) |->
        [devices[k] EXCEPT !.cacheDuration = DeviceCacheDuration(devices, interval)]]

-----------------------------------------------------------------------------
(* _async_migrate_entries: the unique-id rewrite *)

\* str.replace(old, new) for a non-empty old: every non-overlapping
\* occurrence of old, found from the left, becomes new.
RECURSIVE Replace(_, _, _)
Replace(str, old, new) ==
    IF Len(str) < Len(old) THEN str
    ELSE IF SubSeq(str, 1, Len(old)) = old
         THEN new \o Replace(SubSeq(str, Len(old) + 1, Len(str)), old, new)
         ELSE <<Head(str)>> \o Replace(Tail(str), old, new)

\* helpers.get_unique_device_id(device).
get_unique_device_id(device) == device.device_id

\* entity_registry.async_get_entity_id(domain, platform, unique_id): the
\* index of the entity registered under these three, or NoEntity (None).
async_get_entity_id(reg, domain, platform, unique_id) ==
    LET found == {i \in 1..Len(reg) : /\ reg[i].domain = domain
                                      /\ reg[i].platform = platform
                                      /\ reg[i].unique_id = unique_id}
    IN  IF found = {} THEN NoEntity ELSE CHOOSE i \in found : TRUE

\* Lines 83-86: the unique id update_unique_id computes for an entity.
NewUniqueId(unique_id, devices) ==
    Replace(unique_id,
            devices[1].serial \o Dash,
            get_unique_device_id(devices[1]) \o Dash)

\* Mutants of RewriteSkipped: the check for an existing entity is dropped;
\* and every rewrite is given up.
RewriteSkipped_Never(reg, entry, new_unique_id) == FALSE

RewriteSkipped_Always(reg, entry, new_unique_id) == TRUE

\* Lines 93-104: whether update_unique_id gives up the rewrite (returns None).
RewriteSkipped(reg, entry, new_unique_id) ==
    async_get_entity_id(reg, entry.domain, entry.platform, new_unique_id) # NoEntity

\* The callback update_unique_id: NoUpdates (None), or the update to apply.
update_unique_id(reg, entry, devices) ==
    LET new_unique_id == NewUniqueId(entry.unique_id, devices)
    IN  IF RewriteSkipped(reg, entry, new_unique_id)
        THEN NoUpdates
        ELSE [is_none |-> FALSE, new_unique_id |-> new_unique_id]

\* er.async_migrate_entries from entity i on: every entity of the config entry
\* is handed to the callback and updated at once with what it returns.
RECURSIVE MigrateFrom(_, _, _, _)
MigrateFrom(reg, i, entry_id, devices) ==
    IF i > Len(reg) THEN reg
    ELSE IF reg[i].config_entry_id # entry_id
         THEN MigrateFrom(reg, i + 1, entry_id, devices)
         ELSE LET updates == update_unique_id(reg, reg[i], devices)
              IN  MigrateFrom(IF updates.is_none
                              THEN reg
                              ELSE [reg EXCEPT ![i].unique_id = updates.new_unique_id],
                              i + 1, entry_id, devices)

\* Mutant of NeedsMigration: the version is not looked at.
NeedsMigration_Always(entry_version) == TRUE

\* The guard of line 76.
NeedsMigration(entry_version) == entry_version = 1

\* Mutant of MigratedVersion: the version is not advanced.
MigratedVersion_Unchanged(entry_version) == entry_version

\* Line 107: the version the entry is given once the entities were visited.
MigratedVersion(entry_version) == 2


-----------------------------------------------------------------------------
(* The initial state *)

Domains == {"sensor", "climate"}

\* The unique ids the registry may hold when the integration starts.
UniqueIds == {<<"s", "-", "a">>, <<"n", "-", "a">>, <<"a", "s", "-", "a">>,
              <<"s", "-", "s", "-">>, <<"s", "-", "n", "-", "a">>}

RegistryEntries ==
    [config_entry_id : Entries, domain : Domains, platform : {"vicare"},
     unique_id : UniqueIds]

\* The registry keeps unique ids distinct within a domain and platform.
UniqueIdsDistinct(reg) ==
    \A i, j \in 1..Len(reg) :
        (/\ i # j
         /\ reg[i].domain = reg[j].domain
         /\ reg[i].platform = reg[j].platform) => reg[i].unique_id # reg[j].unique_id

Registries(n) == {reg \in [1..n -> RegistryEntries] : UniqueIdsDistinct(reg)}

\* The registry of the specification of two entries.
TwoEntryRegistries ==
    {<<[config_entry_id |-> "e1", domain |-> "sensor", platform |-> "vicare",
        unique_id |-> <<"s", "-", "a">>],
       [config_entry_id |-> "e2", domain |-> "sensor", platform |-> "vicare",
        unique_id |-> <<"n", "-", "a">>]>>}

InitWith(registries, datas, versions) ==
    /\ hass_data = EmptyDict
    /\ entry_data \in datas
    /\ version \in versions
    /\ entities \in registries
    /\ token_file \in BOOLEAN
    /\ pc = [e \in Entries |-> "not_loaded"]
    /\ vicare_api = [e \in Entries |-> NoSession]
    /\ scan_interval = [e \in Entries |-> 0]
    /\ unload_ok = [e \in Entries |-> FALSE]
    /\ raised = [e \in Entries |-> "none"]
    /\ result = [e \in Entries |-> "none"]
    /\ unload_result = [e \in Entries |-> "none"]
    /\ remove_outcome = [e \in Entries |-> "not_called"]
    /\ migrations = [e \in Entries |-> 0]
    /\ unload_record = [e \in Entries |-> {}]


-----------------------------------------------------------------------------
(* async_setup_entry *)

\* A setup that swallows the exception and goes on to the platforms.
SetupRaises_Continues(e, exc) ==
    /\ raised' = [raised EXCEPT ![e] = exc]
    /\ result' = [result EXCEPT ![e] = HandleSetupException(exc)]
    /\ pc' = [pc EXCEPT ![e] = "forward"]
    /\ vicare_api' = [vicare_api EXCEPT ![e] = NoSession]
    /\ scan_interval' = [scan_interval EXCEPT ![e] = 0]

\* Setup ends by raising: the exception exc was raised inside the try block.
SetupRaises(e, exc) ==
    /\ raised' = [raised EXCEPT ![e] = exc]
    /\ result' = [result EXCEPT ![e] = HandleSetupException(exc)]
    /\ pc' = [pc EXCEPT ![e] = "not_loaded"]
    /\ vicare_api' = [vicare_api EXCEPT ![e] = NoSession]
    /\ scan_interval' = [scan_interval EXCEPT ![e] = 0]

\* Lines 118-119: the domain's mapping is made anew, with an empty record for
\* this entry; then the session job is handed to the executor (line 122).
InitialData(data, e) == (e :> EmptyDict)

SetupStart(e) ==
    /\ pc[e] \in {"not_loaded", "failed_unload"}
    /\ hass_data' = InitialData(hass_data, e)
    /\ pc' = [pc EXCEPT ![e] = "login1"]
    /\ raised' = [raised EXCEPT ![e] = "none"]
    /\ result' = [result EXCEPT ![e] = "none"]
    /\ vicare_api' = [vicare_api EXCEPT ![e] = NoSession]
    /\ scan_interval' = [scan_interval EXCEPT ![e] = 0]
    /\ unload_ok' = [unload_ok EXCEPT ![e] = FALSE]
    /\ unload_result' = [unload_result EXCEPT ![e] = "none"]
    /\ remove_outcome' = [remove_outcome EXCEPT ![e] = "not_called"]
    /\ UNCHANGED <<entry_data, version, entities, token_file, migrations, unload_record>>

\* Line 153: the first vicare_login raises.
FirstLoginFails(e, errors) ==
    /\ pc[e] = "login1"
    /\ \E exc \in errors : SetupRaises(e, exc)
    /\ UNCHANGED <<hass_data, entry_data, version, entities, token_file, unload_ok,
                   unload_result, remove_outcome, migrations, unload_record>>

\* Lines 153-162: the first session, with the default cache duration, and the
\* scan interval computed from the number of its devices.
FirstLogin(e, ids) ==
    /\ pc[e] = "login1"
    /\ \E n \in 0..MaxDevices, id \in ids :
          /\ vicare_api' = [vicare_api EXCEPT
                               ![e] = Session(DEFAULT_SCAN_INTERVAL, n, id)]
          /\ scan_interval' = [scan_interval EXCEPT
                                  ![e] = ComputeScanInterval(n, entry_data[e])]
    /\ token_file' = TRUE
    /\ pc' = [pc EXCEPT ![e] = "login2"]
    /\ UNCHANGED <<hass_data, entry_data, version, entities, unload_ok, raised, result,
                   unload_result, remove_outcome, migrations, unload_record>>

\* Line 164: the second vicare_login raises.
SecondLoginFails(e, errors) ==
    /\ pc[e] = "login2"
    /\ \E exc \in errors : SetupRaises(e, exc)
    /\ UNCHANGED <<hass_data, entry_data, version, entities, token_file, unload_ok,
                   unload_result, remove_outcome, migrations, unload_record>>

\* Mutant of StoreDevices: the list of the session setup_vicare_api held
\* before, the first one, is stored.
StoreDevices_FirstSession(data, e, devices) ==
    [data EXCEPT ![e] = (VICARE_DEVICE_CONFIG :> vicare_api[e].devices) @@ data[e]]

\* Line 173: the record of the entry is given the device list.
StoreDevices(data, e, devices) ==
    [data EXCEPT ![e] = (VICARE_DEVICE_CONFIG :> devices) @@ data[e]]

\* Lines 164-173: the second session with the computed interval, the override
\* of every device's cache duration, and the device list stored in the entry's
\* record; a record that is no longer there makes line 173 raise KeyError.
SecondLogin(e, ids) ==
    /\ pc[e] = "login2"
    /\ token_file' = TRUE
    /\ \E n \in 0..MaxDevices, id \in ids :
          LET session == Session(scan_interval[e], n, id)
              devices == OverrideCacheDurations(session.devices, scan_interval[e])
          IN  IF e \in DOMAIN hass_data
              THEN /\ hass_data' = StoreDevices(hass_data, e, devices)
                   /\ vicare_api' = [vicare_api EXCEPT
                                        ![e] = [session EXCEPT !.devices = devices]]
                   /\ pc' = [pc EXCEPT ![e] = "migrate"]
                   /\ UNCHANGED <<scan_interval, raised, result>>
              ELSE /\ SetupRaises(e, "KeyError")
                   /\ UNCHANGED hass_data
    /\ UNCHANGED <<entry_data, version, entities, unload_ok, unload_result,
                   remove_outcome, migrations, unload_record>>

\* Mutant of async_migrate_entries: the version is advanced only when no
\* entity of the entry was left with a unique id the callback would change.
async_migrate_entries_UnlessSkipped(reg, entry_version, e, data) ==
    IF ~NeedsMigration(entry_version)
    THEN [returns |-> "True", rewrites |-> FALSE, entities |-> reg,
          version |-> entry_version]
    ELSE IF e \notin DOMAIN data \/ VICARE_DEVICE_CONFIG \notin DOMAIN data[e]
    THEN [returns |-> "KeyError", rewrites |-> FALSE, entities |-> reg,
          version |-> entry_version]
    ELSE LET devices == data[e][VICARE_DEVICE_CONFIG]
         IN  IF Len(devices) = 0
             THEN [returns |-> "True", rewrites |-> FALSE, entities |-> reg,
                   version |-> entry_version]
             ELSE LET out == MigrateFrom(reg, 1, e, devices)
                      skipped == \E i \in 1..Len(reg) :
                                    /\ reg[i].config_entry_id = e
                                    /\ out[i].unique_id = reg[i].unique_id
                                    /\ NewUniqueId(reg[i].unique_id, devices)
                                          # reg[i].unique_id
                  IN  [returns |-> "True", rewrites |-> TRUE, entities |-> out,
                       version |-> IF skipped THEN entry_version
                                   ELSE MigratedVersion(entry_version)]

\* Lines 73-111: what _async_migrate_entries returns (True, or the KeyError
\* line 77 raises when the entry has no record or its record no device list),
\* whether it reached the rewriting of line 106, and the registry and the
\* entry's version it leaves.
async_migrate_entries(reg, entry_version, e, data) ==
    IF ~NeedsMigration(entry_version)
    THEN [returns |-> "True", rewrites |-> FALSE, entities |-> reg,
          version |-> entry_version]
    ELSE IF e \notin DOMAIN data \/ VICARE_DEVICE_CONFIG \notin DOMAIN data[e]
    THEN [returns |-> "KeyError", rewrites |-> FALSE, entities |-> reg,
          version |-> entry_version]
    ELSE LET devices == data[e][VICARE_DEVICE_CONFIG]
         IN  IF Len(devices) = 0
             THEN [returns |-> "True", rewrites |-> FALSE, entities |-> reg,
                   version |-> entry_version]
             ELSE [returns |-> "True", rewrites |-> TRUE,
                   entities |-> MigrateFrom(reg, 1, e, devices),
                   version |-> MigratedVersion(entry_version)]

\* Line 124: the unique-id migrator runs on the event loop.
MigrateEntries(e) ==
    /\ pc[e] = "migrate"
    /\ LET out == async_migrate_entries(entities, version[e], e, hass_data)
       IN  /\ entities' = out.entities
           /\ version' = [version EXCEPT ![e] = out.version]
           /\ IF out.returns # "True"
              THEN /\ SetupRaises(e, out.returns)
                   /\ UNCHANGED migrations
              ELSE /\ pc' = [pc EXCEPT ![e] = "forward"]
                   /\ migrations' = [migrations EXCEPT
                         ![e] = IF out.rewrites THEN 1 ELSE IF @ = 0 THEN 0 ELSE 2]
                   /\ UNCHANGED <<raised, result, vicare_api, scan_interval>>
    /\ UNCHANGED <<hass_data, entry_data, token_file, unload_ok, unload_result,
                   remove_outcome, unload_record>>

\* Line 126: forwarding the setup to the platforms raises.
ForwardFails(e, errors) ==
    /\ pc[e] = "forward"
    /\ \E exc \in errors : SetupRaises(e, exc)
    /\ UNCHANGED <<hass_data, entry_data, version, entities, token_file, unload_ok,
                   unload_result, remove_outcome, migrations, unload_record>>

\* Lines 126-128: the platforms are set up and setup returns True.
ForwardAndReturn(e) ==
    /\ pc[e] = "forward"
    /\ pc' = [pc EXCEPT ![e] = "loaded"]
    /\ result' = [result EXCEPT ![e] = "True"]
    /\ vicare_api' = [vicare_api EXCEPT ![e] = NoSession]
    /\ scan_interval' = [scan_interval EXCEPT ![e] = 0]
    /\ UNCHANGED <<hass_data, entry_data, version, entities, token_file, unload_ok,
                   raised, unload_result, remove_outcome, migrations, unload_record>>

-----------------------------------------------------------------------------
(* async_unload_entry *)

\* Line 180: hass.data[DOMAIN].pop(entry.entry_id).
PopEntry(data, e) == [k \in DOMAIN data \ {e} |-> data[k]]

\* Lines 178-180: the host unloads the platforms and says whether it
\* succeeded; on success the entry's record is popped, which raises KeyError
\* when the record is not there, and ends the unload.
UnloadPlatforms(e) ==
    /\ pc[e] = "loaded"
    /\ remove_outcome' = [remove_outcome EXCEPT ![e] = "not_called"]
    /\ \E ok \in BOOLEAN :
          /\ unload_ok' = [unload_ok EXCEPT ![e] = ok]
          /\ IF ok /\ e \notin DOMAIN hass_data
             THEN /\ unload_result' = [unload_result EXCEPT ![e] = "KeyError"]
                  /\ pc' = [pc EXCEPT ![e] = "failed_unload"]
                  /\ UNCHANGED <<hass_data, unload_record>>
             ELSE /\ unload_result' = [unload_result EXCEPT ![e] = "none"]
                  /\ pc' = [pc EXCEPT ![e] = "remove_token"]
                  /\ hass_data' = IF ok THEN PopEntry(hass_data, e) ELSE hass_data
                  /\ unload_record' = [unload_record EXCEPT
                        ![e] = IF e \in DOMAIN hass_data THEN {hass_data[e]} ELSE {}]
    /\ UNCHANGED <<entry_data, version, entities, token_file, vicare_api, scan_interval,
                   raised, result, migrations>>

\* What unload returns after the with-block of lines 181-184.
UnloadReturns(ok) == IF ok THEN "True" ELSE "False"

\* os.remove(path): the file is removed, or FileNotFoundError is raised.
OsRemove(exists) == IF exists THEN "removed" ELSE "FileNotFoundError"

\* Lines 181-186: os.remove of the token file in the executor, its
\* FileNotFoundError suppressed, and the return of unload_ok.
RemoveTokenAndReturn(e) ==
    /\ pc[e] = "remove_token"
    /\ remove_outcome' = [remove_outcome EXCEPT ![e] = OsRemove(token_file)]
    /\ token_file' = FALSE
    /\ unload_result' = [unload_result EXCEPT ![e] = UnloadReturns(unload_ok[e])]
    /\ pc' = [pc EXCEPT ![e] = IF unload_ok[e] THEN "not_loaded" ELSE "failed_unload"]
    /\ unload_record' = [unload_record EXCEPT ![e] = {}]
    /\ UNCHANGED <<hass_data, entry_data, version, entities, vicare_api, scan_interval,
                   unload_ok, raised, result, migrations>>

-----------------------------------------------------------------------------
(* The specifications *)

\* The steps of the lifecycles of the config entries in entry_ids, with the
\* upstream raising the exceptions in errors and giving the first device one
\* of the device ids in ids.
Step(entry_ids, errors, ids) ==
    \E e \in entry_ids :
        \/ SetupStart(e)
        \/ FirstLoginFails(e, errors)
        \/ FirstLogin(e, ids)
        \/ SecondLoginFails(e, errors)
        \/ SecondLogin(e, ids)
        \/ MigrateEntries(e)
        \/ ForwardFails(e, errors)
        \/ ForwardAndReturn(e)
        \/ UnloadPlatforms(e)
        \/ RemoveTokenAndReturn(e)

\* Two config entries whose lifecycles interleave: every exception, every
\* premium flag, every version.
Init == InitWith(TwoEntryRegistries, [Entries -> EntryDatas], [Entries -> {1, 2}])

Next == Step(Entries, LoginErrors, {<<"n">>})

Spec == Init /\ [][Next]_vars

\* One config entry set up and unloaded again and again, over every registry
\* of NumEntities entities and every device id.
InitMigration ==
    InitWith(Registries(NumEntities), [Entries -> {EmptyDict}],
             {[e \in Entries |-> IF e = "e1" THEN v ELSE 1] : v \in {1, 2}})

NextMigration == Step({"e1"}, {"PyViCareRateLimitError"}, DeviceIds)

SpecMigration == InitMigration /\ [][NextMigration]_vars


-----------------------------------------------------------------------------
(* Properties *)

Premium(e) == CONF_PREMIUM \in DOMAIN entry_data[e] /\ entry_data[e][CONF_PREMIUM]

\* The devices of the first session, while setup_vicare_api holds it.
FirstSessionCount(e) == Len(vicare_api[e].devices)

HasDevices(e) == e \in DOMAIN hass_data /\ VICARE_DEVICE_CONFIG \in DOMAIN hass_data[e]

StoredDevices(e) == hass_data[e][VICARE_DEVICE_CONFIG]

\* C1: the scan interval handed to the second vicare_login is max(B, B*n) for
\* the n devices of the first session when the premium flag is absent or
\* false, and half of max(B, B*n) when it is true; the second session is
\* built with exactly that interval.
C1_ScanIntervalFormula ==
    \A e \in Entries :
        /\ pc[e] = "login2" =>
              LET n == FirstSessionCount(e)
                  m == Max(DEFAULT_SCAN_INTERVAL, DEFAULT_SCAN_INTERVAL * n)
              IN  IF Premium(e) THEN 2 * scan_interval[e] = m ELSE scan_interval[e] = m
        /\ pc[e] \in {"migrate", "forward"} =>
              vicare_api[e].cacheDuration = scan_interval[e]

\* C1 witness: B = 60 and 3 devices give 90 with premium, on the second session.
C1_Witness ==
    \E e \in Entries :
        /\ pc[e] = "migrate"
        /\ Premium(e)
        /\ scan_interval[e] = 90
        /\ vicare_api[e].cacheDuration = 90

\* C2 as claimed: for every n and every premium flag the computed interval is
\* at least B, is non-decreasing in n, and with premium is exactly half of the
\* interval of the same n without premium.
C2_NeverBelowBase ==
    \A e \in Entries :
        pc[e] = "login2" =>
            /\ scan_interval[e] >= DEFAULT_SCAN_INTERVAL
            /\ \A m \in FirstSessionCount(e)..(MaxDevices + 1) :
                  scan_interval[e] <= ComputeScanInterval(m, entry_data[e])
            /\ Premium(e) =>
                  2 * scan_interval[e] = ComputeScanInterval(FirstSessionCount(e), EmptyDict)

\* C2 amended: the computed interval is at least B without premium and at
\* least B/2 with premium; it is non-decreasing in n; with premium it is
\* exactly half of the interval of the same n without premium.
C2_IntervalBounds ==
    \A e \in Entries :
        pc[e] = "login2" =>
            /\ ~Premium(e) => scan_interval[e] >= DEFAULT_SCAN_INTERVAL
            /\ Premium(e) => 2 * scan_interval[e] >= DEFAULT_SCAN_INTERVAL
            /\ \A m \in FirstSessionCount(e)..(MaxDevices + 1) :
                  scan_interval[e] <= ComputeScanInterval(m, entry_data[e])
            /\ Premium(e) =>
                  2 * scan_interval[e] = ComputeScanInterval(FirstSessionCount(e), EmptyDict)

\* C2 witness: a premium entry with one device, whose interval is below B.
C2_Witness ==
    \E e \in Entries :
        /\ pc[e] = "login2"
        /\ Premium(e)
        /\ FirstSessionCount(e) = 1
        /\ scan_interval[e] < DEFAULT_SCAN_INTERVAL

\* C3: every device handle stored for an entry has the cache duration B * n,
\* n the number of devices stored, premium or not.
C3_DeviceCacheDuration ==
    \A e \in Entries :
        HasDevices(e) =>
            \A k \in 1..Len(StoredDevices(e)) :
                StoredDevices(e)[k].cacheDuration
                    = DEFAULT_SCAN_INTERVAL * Len(StoredDevices(e))

\* C3 witness: a premium entry with 3 devices stored, each with cache duration
\* 180, while the session's interval is 90.
C3_Witness ==
    \E e \in Entries :
        /\ pc[e] = "migrate"
        /\ Premium(e)
        /\ HasDevices(e)
        /\ Len(StoredDevices(e)) = 3
        /\ StoredDevices(e)[3].cacheDuration = 180
        /\ vicare_api[e].cacheDuration = 90

\* C4: an invalid-credentials error raised inside the try block ends setup
\* with ConfigEntryAuthFailed; a rate-limit, internal-server, connection or
\* read-timeout error ends it with ConfigEntryNotReady; any other exception
\* propagates unchanged; setup returns True only when nothing was raised.
C4_ExceptionMapping ==
    \A e \in Entries :
        /\ raised[e] = "PyViCareInvalidCredentialsError" =>
              result[e] = "ConfigEntryAuthFailed"
        /\ raised[e] \in {"PyViCareRateLimitError", "PyViCareInternalServerError",
                          "ConnectionError", "ReadTimeout"} =>
              result[e] = "ConfigEntryNotReady"
        /\ raised[e] \in {"OtherError", "KeyError"} => result[e] = raised[e]
        /\ result[e] = "True" => raised[e] = "none"
        /\ raised[e] = "none" => result[e] \in {"none", "True"}

\* C4 witness: a read timeout while the platforms are set up, after the
\* migrator has run, ended setup with ConfigEntryNotReady.
C4_Witness ==
    \E e \in Entries :
        /\ raised[e] = "ReadTimeout"
        /\ result[e] = "ConfigEntryNotReady"
        /\ pc[e] = "not_loaded"
        /\ HasDevices(e)

\* C5: when a session build of an entry's setup is rejected for invalid
\* credentials, setup raises ConfigEntryAuthFailed and the state still holds a
\* record for the entry, without a device list.
C5_AuthRejectedRecordKept ==
    [][\A e \in Entries :
          (/\ pc[e] \in {"login1", "login2"}
           /\ raised'[e] = "PyViCareInvalidCredentialsError") =>
              /\ result'[e] = "ConfigEntryAuthFailed"
              /\ e \in DOMAIN hass_data'
              /\ VICARE_DEVICE_CONFIG \notin DOMAIN hass_data'[e]]_vars


StartsWith(str, prefix) ==
    Len(str) >= Len(prefix) /\ SubSeq(str, 1, Len(prefix)) = prefix

SameIndex(a, b) == a.domain = b.domain /\ a.platform = b.platform

\* The migrator runs for entry e in this step.
MigratorRuns(e) == pc[e] = "migrate" /\ pc'[e] # "migrate"

\* C6: while the migrator runs, an entity whose computed new unique id is the
\* unique id of an existing entity of its domain and platform keeps its unique
\* id; and a registry whose unique ids are distinct per domain and platform
\* stays so.
C6_CollisionSkipped ==
    [][UniqueIdsDistinct(entities) =>
          /\ UniqueIdsDistinct(entities')
          /\ \A e \in Entries :
                (MigratorRuns(e) /\ version[e] = 1 /\ HasDevices(e)
                    /\ Len(StoredDevices(e)) > 0) =>
                    \A i \in 1..Len(entities) :
                        LET new == NewUniqueId(entities[i].unique_id, StoredDevices(e))
                        IN  (/\ entities[i].config_entry_id = e
                             /\ \E j \in 1..Len(entities) :
                                   /\ SameIndex(entities[j], entities[i])
                                   /\ entities[j].unique_id = new
                                   /\ entities'[j].unique_id = new)
                            => entities'[i].unique_id = entities[i].unique_id]_vars

\* C6 witness: the migrator has run and an entity of the entry kept its
\* legacy unique id because another entity holds the id computed for it.
C6_Witness ==
    \E e \in Entries :
        /\ pc[e] = "forward"
        /\ migrations[e] = 1
        /\ HasDevices(e)
        /\ Len(StoredDevices(e)) > 0
        /\ \E i, j \in 1..Len(entities) :
              /\ i # j
              /\ entities[i].config_entry_id = e
              /\ SameIndex(entities[i], entities[j])
              /\ StartsWith(entities[i].unique_id, StoredDevices(e)[1].serial \o Dash)
              /\ entities[j].unique_id
                    = NewUniqueId(entities[i].unique_id, StoredDevices(e))

\* C7: a run of the migrator with a version other than 1, or with version 1
\* and an empty device list, rewrites no unique id, leaves the version as it
\* was and returns True.
C7_MigrationNoOp ==
    [][\A e \in Entries :
          (/\ MigratorRuns(e)
           /\ \/ version[e] # 1
              \/ HasDevices(e) /\ Len(StoredDevices(e)) = 0) =>
              /\ async_migrate_entries(entities, version[e], e, hass_data).returns = "True"
              /\ pc'[e] = "forward"
              /\ entities' = entities
              /\ version' = version]_vars

\* C7 witness: the migrator has returned for an entry of version 1 with an
\* empty device list, and an entity of the entry has a legacy unique id.
C7_Witness ==
    \E e \in Entries :
        /\ pc[e] = "forward"
        /\ version[e] = 1
        /\ HasDevices(e)
        /\ Len(StoredDevices(e)) = 0
        /\ \E i \in 1..Len(entities) :
              /\ entities[i].config_entry_id = e
              /\ StartsWith(entities[i].unique_id, FirstSerial \o Dash)

\* C8: once a run of the migrator has rewritten the entry (version 1, devices
\* cached), a later run on the same entry rewrites no unique id and leaves the
\* version as it is.
C8_SecondRunNoOp ==
    [][\A e \in Entries :
          (MigratorRuns(e) /\ migrations[e] >= 1) =>
              /\ entities' = entities
              /\ version' = version]_vars

\* C8 witness: the migrator has run again after the run that rewrote the
\* entry, on a registry in which the callback would rewrite an entity.
C8_Witness ==
    \E e \in Entries :
        /\ pc[e] = "forward"
        /\ migrations[e] = 2
        /\ HasDevices(e)
        /\ Len(StoredDevices(e)) > 0
        /\ \E i \in 1..Len(entities) :
              /\ entities[i].config_entry_id = e
              /\ ~update_unique_id(entities, entities[i], StoredDevices(e)).is_none

\* C9 as claimed: when the migrator has advanced the version from 1 to 2, no
\* entity of the entry has a unique id that starts with the legacy serial
\* prefix.
C9_NoLegacyLeft ==
    [][\A e \in Entries :
          (version[e] = 1 /\ version'[e] = 2) =>
              \A i \in 1..Len(entities) :
                  entities'[i].config_entry_id = e =>
                      ~StartsWith(entities'[i].unique_id,
                                  StoredDevices(e)[1].serial \o Dash)]_vars

\* C9 amended: when the migrator has advanced the version from 1 to 2, every
\* entity of the entry whose unique id had the legacy serial prefix has a
\* unique id that starts with the new device id, except an entity whose
\* computed unique id was the unique id of another entity of its domain and
\* platform when it was visited, which keeps its legacy unique id.
C9_LegacyRewrittenUnlessCollision ==
    [][\A e \in Entries :
          (version[e] = 1 /\ version'[e] = 2) =>
              LET devices == StoredDevices(e)
                  new_key == get_unique_device_id(devices[1]) \o Dash
              IN  \A i \in 1..Len(entities) :
                      (/\ entities[i].config_entry_id = e
                       /\ StartsWith(entities[i].unique_id, devices[1].serial \o Dash)) =>
                          LET new == NewUniqueId(entities[i].unique_id, devices)
                          IN  \/ /\ entities'[i].unique_id = new
                                 /\ StartsWith(entities'[i].unique_id, new_key)
                              \/ /\ entities'[i].unique_id = entities[i].unique_id
                                 /\ \E j \in 1..Len(entities) :
                                       /\ j # i
                                       /\ SameIndex(entities[j], entities[i])
                                       /\ \/ entities[j].unique_id = new
                                          \/ entities'[j].unique_id = new]_vars

\* C9 witness: the migrator has advanced the version and an entity of the
\* entry has the new device id as its device key.
C9_Witness ==
    \E e \in Entries :
        /\ pc[e] = "forward"
        /\ migrations[e] = 1
        /\ version[e] = 2
        /\ HasDevices(e)
        /\ Len(StoredDevices(e)) > 0
        /\ \E i \in 1..Len(entities) :
              /\ entities[i].config_entry_id = e
              /\ StartsWith(entities[i].unique_id,
                            get_unique_device_id(StoredDevices(e)[1]) \o Dash)
              /\ ~StartsWith(entities[i].unique_id, StoredDevices(e)[1].serial \o Dash)

\* C10: every call of async_unload_entry that has ended has called os.remove
\* on the token file, whether the platform unload succeeded or not and whether
\* the file existed or not, and has returned the platform unload's result.
C10_UnloadAlwaysRemoves ==
    \A e \in Entries :
        unload_result[e] # "none" =>
            /\ remove_outcome[e] \in {"removed", "FileNotFoundError"}
            /\ unload_result[e] = IF unload_ok[e] THEN "True" ELSE "False"

\* The step on which a call of async_unload_entry returns (line 186).
UnloadEnds(e) == pc[e] = "remove_token" /\ pc'[e] # "remove_token"

\* C11: a call of async_unload_entry that returns has evicted the entry's
\* record exactly when the platform unload succeeded: after a successful
\* unload the record is absent, and after a failed unload of an entry that had
\* a record, the record is still present and is the one the entry had.
C11_EvictedIffUnloaded ==
    [][\A e \in Entries :
          UnloadEnds(e) =>
              IF unload_ok[e]
              THEN e \notin DOMAIN hass_data'
              ELSE unload_record[e] # {} =>
                      /\ e \in DOMAIN hass_data'
                      /\ unload_record[e] = {hass_data'[e]}]_vars

\* C12: in every run of async_setup_entry the entry's record is initialised
\* first, then the sessions are built and the device list is cached, then the
\* migrator runs, then the platforms are set up: the migrator starts only from
\* the step that has cached the list, the platforms are set up only after the
\* migrator has returned, and a setup whose session initialisation raises
\* ends there, with no entity rewritten, the version unchanged and no
\* platform set up.
C12_SetupOrder ==
    [][\A e \in Entries :
          /\ (pc'[e] = "login1" /\ pc[e] # "login1") =>
                /\ pc[e] \in {"not_loaded", "failed_unload"}
                /\ e \in DOMAIN hass_data'
                /\ hass_data'[e] = EmptyDict
          /\ (pc'[e] = "login2" /\ pc[e] # "login2") => pc[e] = "login1"
          /\ (pc'[e] = "migrate" /\ pc[e] # "migrate") =>
                /\ pc[e] = "login2"
                /\ HasDevices(e)'
                /\ StoredDevices(e)' = vicare_api'[e].devices
          /\ (pc'[e] = "forward" /\ pc[e] # "forward") =>
                /\ pc[e] = "migrate"
                /\ raised'[e] = "none"
          /\ (pc'[e] = "loaded" /\ pc[e] # "loaded") =>
                /\ pc[e] = "forward"
                /\ result'[e] = "True"
          /\ (pc[e] \in {"login1", "login2"} /\ raised'[e] # "none") =>
                /\ pc'[e] = "not_loaded"
                /\ result'[e] # "True"
                /\ entities' = entities
                /\ version'[e] = version[e]]_vars

\* C12 witness: one entry has gone through all four steps, its migrator having
\* rewritten an entity, while the other's session initialisation has raised
\* and its version is still 1.
C12_Witness ==
    \E e \in Entries, f \in Entries :
        /\ pc[e] = "loaded"
        /\ result[e] = "True"
        /\ HasDevices(e)
        /\ migrations[e] = 1
        /\ version[e] = 2
        /\ pc[f] = "not_loaded"
        /\ raised[f] = "PyViCareInvalidCredentialsError"
        /\ version[f] = 1

\* C13: a run of the migrator that starts with version 1 and a non-empty
\* cached device list returns with the entry's version equal to 2, every
\* entity of the entry having been left with its unique id or given the
\* computed one, whether or not a rewrite was given up because of a collision;
\* and no step of any setup or unload lowers an entry's version.
C13_VersionAdvanced ==
    [][\A e \in Entries :
          /\ version'[e] >= version[e]
          /\ (/\ MigratorRuns(e)
              /\ version[e] = 1
              /\ HasDevices(e)
              /\ Len(StoredDevices(e)) > 0) =>
                /\ pc'[e] = "forward"
                /\ version'[e] = 2
                /\ Len(entities') = Len(entities)
                /\ \A i \in 1..Len(entities) :
                      IF entities[i].config_entry_id = e
                      THEN entities'[i].unique_id
                              \in {entities[i].unique_id,
                                   NewUniqueId(entities[i].unique_id, StoredDevices(e))}
                      ELSE entities'[i] = entities[i]]_vars

\* C13 witness: the migrator has returned with version 2 although it gave up
\* the rewrite of an entity, which still has its legacy unique id.
C13_Witness ==
    \E e \in Entries :
        /\ pc[e] = "forward"
        /\ migrations[e] = 1
        /\ version[e] = 2
        /\ HasDevices(e)
        /\ Len(StoredDevices(e)) > 0
        /\ \E i \in 1..Len(entities) :
              /\ entities[i].config_entry_id = e
              /\ StartsWith(entities[i].unique_id, StoredDevices(e)[1].serial \o Dash)
              /\ NewUniqueId(entities[i].unique_id, StoredDevices(e)) # entities[i].unique_id
              /\ \E j \in 1..Len(entities) :
                    /\ j # i
                    /\ SameIndex(entities[j], entities[i])
                    /\ entities[j].unique_id
                          = NewUniqueId(entities[i].unique_id, StoredDevices(e))

\* C14: when the migrator has rewritten the entities of an entry, an entity
\* whose unique id began with the serial prefix has either kept it or been
\* given the new device key followed by its old suffix, and an entity whose
\* unique id did not begin with the serial prefix, even one that has it at a
\* later position, has kept its unique id.
C14_OnlyLeadingPrefix ==
    [][\A e \in Entries :
          (/\ MigratorRuns(e)
           /\ version[e] = 1
           /\ HasDevices(e)
           /\ Len(StoredDevices(e)) > 0) =>
              LET devices == StoredDevices(e)
                  old_key == devices[1].serial \o Dash
                  new_key == get_unique_device_id(devices[1]) \o Dash
              IN  \A i \in 1..Len(entities) :
                      entities[i].config_entry_id = e =>
                          LET id == entities[i].unique_id
                          IN  IF StartsWith(id, old_key)
                              THEN entities'[i].unique_id
                                      \in {id, new_key \o SubSeq(id, Len(old_key) + 1, Len(id))}
                              ELSE entities'[i].unique_id = id]_vars

\* C15: a setup builds its sessions in order: the first with the base interval
\* B as cache duration, the second, built only after the first, with the
\* computed scan interval; when the first vicare_login raises no second
\* session is built; and the device list cached in the entry's record is the
\* list of the second session.
C15_TwoSessions ==
    [][\A e \in Entries :
          /\ (pc[e] = "login1" /\ pc'[e] # "login1") =>
                IF raised'[e] # "none"
                THEN pc'[e] = "not_loaded" /\ vicare_api'[e] = NoSession
                ELSE /\ pc'[e] = "login2"
                     /\ vicare_api'[e].cacheDuration = DEFAULT_SCAN_INTERVAL
                     /\ scan_interval'[e]
                           = ComputeScanInterval(Len(vicare_api'[e].devices), entry_data[e])
          /\ (pc[e] = "login2" /\ pc'[e] = "migrate") =>
                /\ vicare_api[e].cacheDuration = DEFAULT_SCAN_INTERVAL
                /\ vicare_api'[e].cacheDuration = scan_interval[e]
                /\ HasDevices(e)'
                /\ StoredDevices(e)' = vicare_api'[e].devices
          /\ (pc'[e] = "loaded" /\ pc[e] # "loaded") =>
                /\ vicare_api[e] # NoSession
                /\ vicare_api[e].cacheDuration = scan_interval[e]]_vars

\* C15 witness: a setup is about to succeed whose second session has an
\* interval other than B and whose device list, of two devices, is the cached
\* one; the first session had three devices.
C15_Witness ==
    \E e \in Entries :
        /\ pc[e] = "forward"
        /\ raised[e] = "none"
        /\ HasDevices(e)
        /\ Len(StoredDevices(e)) = 2
        /\ StoredDevices(e) = vicare_api[e].devices
        /\ vicare_api[e].cacheDuration = scan_interval[e]
        /\ scan_interval[e] = 3 * DEFAULT_SCAN_INTERVAL

\* The step on which a call of async_setup_entry ends, by returning True
\* (line 128) or by raising (lines 129-136).
SetupEnds(e) ==
    /\ pc[e] \in {"login1", "login2", "migrate", "forward"}
    /\ pc'[e] \in {"loaded", "not_loaded"}

\* C16: when a setup of an entry returns True, the entry's record holds the
\* device list of this setup's second session and nothing else; when a setup
\* fails, the entry's record holds no device list other than the one this
\* setup has cached, and none at all when the session initialisation failed.
C16_RecordReplaced ==
    [][\A e \in Entries :
          SetupEnds(e) =>
              IF pc'[e] = "loaded"
              THEN /\ e \in DOMAIN hass_data'
                   /\ hass_data'[e] = (VICARE_DEVICE_CONFIG :> vicare_api[e].devices)
              ELSE HasDevices(e)' =>
                      /\ pc[e] \in {"migrate", "forward"}
                      /\ StoredDevices(e)' = vicare_api[e].devices]_vars

\* C17: no step of a setup of one entry changes the record of another entry
\* that has been set up and not unloaded: the other entry is still mapped to
\* the same device list after the step.
C17_OtherRecordsKept ==
    [][\A e1 \in Entries, e2 \in Entries :
          (/\ e1 # e2
           /\ pc[e1] = "loaded"
           /\ HasDevices(e1)
           /\ pc[e2] \in {"not_loaded", "failed_unload", "login1", "login2",
                          "migrate", "forward"}
           /\ pc'[e2] # pc[e2]) =>
              /\ HasDevices(e1)'
              /\ StoredDevices(e1)' = StoredDevices(e1)]_vars

\* C18: in every interleaving of the setups and unloads of two entries, no
\* access to an entry's record finds it missing: neither the write of line
\* 173, nor the read of line 77, nor the pop of line 180 raises KeyError.
C18_RecordPresentAtAccess ==
    \A e \in Entries :
        /\ raised[e] # "KeyError"
        /\ unload_result[e] # "KeyError"

=============================================================================
